---- MODULE Spec2Model ----
(***************************************************************************)
(* A model of the real-time match orchestrator of the math duel game:      *)
(* createChallenge, the per-room socket handlers, the round loop, the      *)
(* rating computation and the end-of-match / cleanup path.                 *)
(*                                                                         *)
(* Scores are kept in half points (a correct answer is worth 2, the time   *)
(* bonus at most 1), so that the real-valued arithmetic of the source is   *)
(* exact on the inputs the model draws (timeLeft a multiple of the round   *)
(* duration).  Strings that the code normalises (answers) are sequences of *)
(* one-character strings.                                                  *)
(***************************************************************************)
EXTENDS Integers, Sequences, FiniteSets, TLC

VARIABLES
  rooms,         \* keys of the `rooms` table
  roomObj,       \* the room objects, by id (an object outlives its table entry
                 \* while an endMatch call still holds a reference to it)
  roomTimeouts,  \* keys of the `roomTimeouts` table (pending match-expiry timers)
  timers,        \* pending settle-delay callbacks (setTimeout ... 3000) per room
  ending,        \* endMatch calls suspended at an await, per room, oldest first
  events,        \* what nsp.emit has broadcast, per namespace
  cleanups,      \* the reasons cleanupRoom was called with, per room
  sockets,       \* connected sockets (with handlers) per namespace
  store,         \* PlayerStore: per player and difficulty, the stored pvp rating
  budget,        \* what the environment may still do (the model's bounds)
  last           \* the handler that ran last and what it answered

vars == <<rooms, roomObj, roomTimeouts, timers, ending, events, cleanups,
          sockets, store, budget, last>>

(***************************************************************************)
(* Bounds of the model                                                     *)
(***************************************************************************)
MaxRooms == 2
\* Spec, a short match with its races: how many requests, connections,
\* disconnections, accepted submissions, correct ones and ones under an id
\* that is no participant's the environment may make
MaxRequests == 1
MaxConnects == 2
MaxDisconnects == 2
MaxSubmits == 4
MaxCorrect == 1
MaxBogus == 1
\* SpecMatch, a match played to its end with little else happening
MatchDisconnects == 1
MatchCorrect == 0
\* SpecRooms, several requests and rooms
RoomsRequests == 2
RoomsConnects == 2
RoomsDisconnects == 1
RoomsSubmits == 2

\* SpecJoin, sockets that come, go and come back around the start of a match
JoinConnects == 3
JoinDisconnects == 2
JoinSubmits == 2

\* SpecRating, the rating computation on its own: the largest stored rating
\* and the largest score (in half points) it is given
MaxRating == 1800
MaxScore == 30

RoomIds == 1..MaxRooms

(***************************************************************************)
(* GAME_CONFIG                                                             *)
(***************************************************************************)
QUESTIONS_PER_MATCH == 10
ROUND_TIMEOUT == 60000
BASE_RATING == 1000
MIN_RATING == 0
MAX_RATING_CHANGE == 50
K == 32

Undefined == "undefined"
Null == "null"
\* a pvp rating that is not there (undefined)
Absent == -1

Difficulties == {"easy", "medium", "hard"}
PlayerIds == {"p1", "p2"}
\* what a request body may carry
FromInputs == {"p1", Undefined}
ToInputs == PlayerIds \cup {Undefined}
DifficultyInputs == {"easy", "hard", "expert", Undefined}
\* what Player.findById may do
FindOutcomes == {"doc", "null", "throw"}
\* what a submitAnswer event may carry
SubmitIds == PlayerIds \cup {"px"}
Answers == {<<" ", "a">>, <<"B">>}
TimeLefts == {-180, 60, 120}

(***************************************************************************)
(* The question bank: what loadQuestionsFromExcel returns.  The records    *)
(* carry `key`, never `id`.                                                *)
(***************************************************************************)
question(key, difficulty, levelNumber, answer) ==
  [key |-> key, difficulty |-> difficulty, levelNumber |-> levelNumber,
   answer |-> answer]

loadQuestionsFromExcel ==
  { question("k1", "easy", 1, <<"A", " ">>),
    question("k2", "easy", 1, <<"A", " ">>),
    question("k3", "medium", 2, <<"A", " ">>) }

NoQuestion == question(Null, Null, 0, <<>>)

\* q.id in JavaScript: undefined when the record has no such field
QuestionId(q) == IF "id" \in DOMAIN q THEN q.id ELSE Undefined

getLevelFromScore(score2) ==
  IF score2 <= 2 * 5 THEN 1
  ELSE IF score2 <= 2 * 9 THEN 2
  ELSE IF score2 <= 2 * 13 THEN 3
  ELSE IF score2 <= 2 * 17 THEN 4
  ELSE IF score2 <= 2 * 21 THEN 5
  ELSE IF score2 <= 2 * 25 THEN 6
  ELSE IF score2 <= 2 * 29 THEN 7
  ELSE IF score2 <= 2 * 33 THEN 8
  ELSE IF score2 <= 2 * 37 THEN 9
  ELSE 10

(***************************************************************************)
(* Small helpers                                                           *)
(***************************************************************************)
Min(a, b) == IF a <= b THEN a ELSE b
Max(a, b) == IF a >= b THEN a ELSE b
Abs(a) == IF a < 0 THEN -a ELSE a
SetMin(S) == CHOOSE x \in S : \A y \in S : x <= y
RemoveAt(s, i) == [j \in 1..(Len(s) - 1) |-> IF j < i THEN s[j] ELSE s[j + 1]]
\* obj[key] || dflt  for a numeric map
GetOr0(f, key) == IF key \in DOMAIN f THEN f[key] ELSE 0
Put(f, key, val) == [x \in DOMAIN f \cup {key} |-> IF x = key THEN val ELSE f[x]]

\* String(x).trim().toLowerCase()
toLowerCaseChar(c) == IF c = "A" THEN "a" ELSE IF c = "B" THEN "b" ELSE c
toLowerCase(s) == [i \in DOMAIN s |-> toLowerCaseChar(s[i])]
RECURSIVE trimStart(_)
trimStart(s) == IF s # <<>> /\ Head(s) = " " THEN trimStart(Tail(s)) ELSE s
RECURSIVE trimEnd(_)
trimEnd(s) ==
  IF s # <<>> /\ s[Len(s)] = " " THEN trimEnd(SubSeq(s, 1, Len(s) - 1)) ELSE s
trim(s) == trimEnd(trimStart(s))

(***************************************************************************)
(* The mutable tables the handlers share, as one record, so that a handler *)
(* and the functions it calls compose.                                     *)
(***************************************************************************)
World ==
  [rooms |-> rooms, roomObj |-> roomObj, roomTimeouts |-> roomTimeouts,
   timers |-> timers, ending |-> ending, events |-> events,
   cleanups |-> cleanups]

Install(w) ==
  /\ rooms' = w.rooms
  /\ roomObj' = w.roomObj
  /\ roomTimeouts' = w.roomTimeouts
  /\ timers' = w.timers
  /\ ending' = w.ending
  /\ events' = w.events
  /\ cleanups' = w.cleanups

\* nsp.emit(...)
emit(w, roomId, ev) == [w EXCEPT !.events[roomId] = Append(@, ev)]

\* setTimeout(callback, 3000)
setTimeout(w, roomId, callback) ==
  [w EXCEPT !.timers[roomId][callback] = @ + 1]

\* cleanupRoom without its clearTimeout
cleanupRoom_timerLeft(w, roomId, reason) ==
  [w EXCEPT !.cleanups[roomId] = Append(@, reason),
            !.rooms = @ \ {roomId}]

\* cleanupRoom clearing the whole timer table
cleanupRoom_allTimers(w, roomId, reason) ==
  [w EXCEPT !.cleanups[roomId] = Append(@, reason),
            !.roomTimeouts = {},
            !.rooms = @ \ {roomId}]

cleanupRoom(w, roomId, reason) ==
  [w EXCEPT !.cleanups[roomId] = Append(@, reason),
            !.roomTimeouts = @ \ {roomId},
            !.rooms = @ \ {roomId}]

\* a room object that nothing refers to any more (it is in no table and no
\* suspended endMatch call holds it) is gone
NoRoom == [players |-> <<>>]

released(w, roomId) ==
  IF roomId \notin w.rooms /\ w.ending[roomId] = <<>>
  THEN [w EXCEPT !.roomObj[roomId] = NoRoom]
  ELSE w

\* the winner endMatch determines from the two scores it read
Winner(players, score1, score2) ==
  IF score1 > score2 THEN players[1]
  ELSE IF score2 > score1 THEN players[2]
  ELSE Null

\* endMatch counting a disconnect as a forfeit of the first player
endMatch_forfeit(w, roomId, reason) ==
  IF roomId \notin w.rooms THEN w
  ELSE LET room == w.roomObj[roomId]
           score1 == IF reason = "player_disconnect" THEN 0
                     ELSE GetOr0(room.scores, room.players[1])
           score2 == GetOr0(room.scores, room.players[2])
           call == [reason |-> reason, score1 |-> score1, score2 |-> score2,
                    winner |-> IF reason = "player_disconnect"
                               THEN room.players[2]
                               ELSE Winner(room.players, score1, score2),
                    pc |-> "findById", prA |-> 0, prB |-> 0,
                    deltaA |-> 0, deltaB |-> 0,
                    newRatingA |-> 0, newRatingB |-> 0]
       IN [w EXCEPT !.ending[roomId] = Append(@, call)]

\* endMatch up to its first await: the room check, the scores read and the
\* winner determined; the call is then suspended on Player.findById
endMatch(w, roomId, reason) ==
  IF roomId \notin w.rooms THEN w
  ELSE LET room == w.roomObj[roomId]
           score1 == GetOr0(room.scores, room.players[1])
           score2 == GetOr0(room.scores, room.players[2])
           call == [reason |-> reason, score1 |-> score1, score2 |-> score2,
                    winner |-> Winner(room.players, score1, score2),
                    pc |-> "findById", prA |-> 0, prB |-> 0,
                    deltaA |-> 0, deltaB |-> 0,
                    newRatingA |-> 0, newRatingB |-> 0]
       IN [w EXCEPT !.ending[roomId] = Append(@, call)]

\* the level sendNextQuestion assigns: Math.min over no score is Infinity
LevelOf(scores) ==
  IF DOMAIN scores = {} THEN 10
  ELSE getLevelFromScore(SetMin({scores[p] : p \in DOMAIN scores}))

availableQuestions(room, level) ==
  {q \in loadQuestionsFromExcel :
     /\ q.levelNumber = level
     /\ q.difficulty = room.difficulty
     /\ \A i \in DOMAIN room.questionsAsked :
          room.questionsAsked[i] # QuestionId(q)}

fallbackQuestions(room) ==
  {q \in loadQuestionsFromExcel : q.difficulty = room.difficulty}

\* the questions Math.random may select at this round start
Candidates(room) ==
  LET available == availableQuestions(room, LevelOf(room.scores))
  IN IF available # {} THEN available ELSE fallbackQuestions(room)

\* sendNextQuestion telling the namespace when it finds no room
sendNextQuestion_tells(w, roomId, pick) ==
  IF roomId \notin w.rooms
  THEN emit(w, roomId, [type |-> "error", reason |-> "Room no longer exists"])
  ELSE LET room == w.roomObj[roomId]
           level == LevelOf(room.scores)
           levelled == [w EXCEPT !.roomObj[roomId].level = level]
       IN IF Candidates(room) = {}
          THEN endMatch(levelled, roomId, "no_questions")
          ELSE emit([levelled EXCEPT
                       !.roomObj[roomId].currentQuestion = pick,
                       !.roomObj[roomId].questionsAsked =
                          Append(@, QuestionId(pick)),
                       !.roomObj[roomId].issuedKeys = @ \cup {pick.key},
                       !.roomObj[roomId].responses = <<>>],
                    roomId,
                    [type |-> "newQuestion", answer |-> Undefined,
                     level |-> level,
                     questionNumber |-> room.questionCount + 1])

\* sendNextQuestion sending the answer along, under the name the round
\* result gives it
sendNextQuestion_answerSent(w, roomId, pick) ==
  IF roomId \notin w.rooms THEN w
  ELSE LET room == w.roomObj[roomId]
           level == LevelOf(room.scores)
           levelled == [w EXCEPT !.roomObj[roomId].level = level]
       IN IF Candidates(room) = {}
          THEN endMatch(levelled, roomId, "no_questions")
          ELSE emit([levelled EXCEPT
                       !.roomObj[roomId].currentQuestion = pick,
                       !.roomObj[roomId].questionsAsked =
                          Append(@, QuestionId(pick)),
                       !.roomObj[roomId].issuedKeys = @ \cup {pick.key},
                       !.roomObj[roomId].responses = <<>>],
                    roomId,
                    [type |-> "newQuestion", answer |-> Undefined,
                     correctAnswer |-> pick.answer,
                     level |-> level,
                     questionNumber |-> room.questionCount + 1])

sendNextQuestion(w, roomId, pick) ==
  IF roomId \notin w.rooms THEN w
  ELSE LET room == w.roomObj[roomId]
           level == LevelOf(room.scores)
           levelled == [w EXCEPT !.roomObj[roomId].level = level]
       IN IF Candidates(room) = {}
          THEN endMatch(levelled, roomId, "no_questions")
          ELSE emit([levelled EXCEPT
                       !.roomObj[roomId].currentQuestion = pick,
                       !.roomObj[roomId].questionsAsked =
                          Append(@, QuestionId(pick)),
                       !.roomObj[roomId].issuedKeys = @ \cup {pick.key},
                       !.roomObj[roomId].responses = <<>>],
                    roomId,
                    [type |-> "newQuestion", answer |-> Undefined,
                     level |-> level,
                     questionNumber |-> room.questionCount + 1])

\* the values `pick` may take in sendNextQuestion(w, roomId, pick)
Picks(w, roomId) ==
  IF roomId \in w.rooms /\ Candidates(w.roomObj[roomId]) # {}
  THEN Candidates(w.roomObj[roomId])
  ELSE {NoQuestion}

\* processRoundResults without room.questionCount++
processRoundResults_notCounted(w, roomId) ==
  IF roomId \notin w.rooms THEN w
  ELSE LET room == w.roomObj[roomId]
           told == emit(w, roomId,
                        [type |-> "roundResult",
                         correctAnswer |-> room.currentQuestion.answer,
                         questionNumber |-> room.questionCount])
       IN IF room.questionCount >= QUESTIONS_PER_MATCH
          THEN setTimeout(told, roomId, "endMatch")
          ELSE setTimeout(told, roomId, "sendNextQuestion")

\* processRoundResults ending the match one round late
processRoundResults_oneMore(w, roomId) ==
  IF roomId \notin w.rooms THEN w
  ELSE LET counted == [w EXCEPT !.roomObj[roomId].questionCount = @ + 1]
           room == counted.roomObj[roomId]
           told == emit(counted, roomId,
                        [type |-> "roundResult",
                         correctAnswer |-> room.currentQuestion.answer,
                         questionNumber |-> room.questionCount])
       IN IF room.questionCount > QUESTIONS_PER_MATCH
          THEN setTimeout(told, roomId, "endMatch")
          ELSE setTimeout(told, roomId, "sendNextQuestion")

\* processRoundResults counting the scored round twice
processRoundResults_twice(w, roomId) ==
  IF roomId \notin w.rooms THEN w
  ELSE LET counted == [w EXCEPT !.roomObj[roomId].questionCount = @ + 2]
           room == counted.roomObj[roomId]
           told == emit(counted, roomId,
                        [type |-> "roundResult",
                         correctAnswer |-> room.currentQuestion.answer,
                         questionNumber |-> room.questionCount])
       IN IF room.questionCount >= QUESTIONS_PER_MATCH
          THEN setTimeout(told, roomId, "endMatch")
          ELSE setTimeout(told, roomId, "sendNextQuestion")

processRoundResults(w, roomId) ==
  IF roomId \notin w.rooms THEN w
  ELSE LET counted == [w EXCEPT !.roomObj[roomId].questionCount = @ + 1]
           room == counted.roomObj[roomId]
           told == emit(counted, roomId,
                        [type |-> "roundResult",
                         correctAnswer |-> room.currentQuestion.answer,
                         questionNumber |-> room.questionCount])
       IN IF room.questionCount >= QUESTIONS_PER_MATCH
          THEN setTimeout(told, roomId, "endMatch")
          ELSE setTimeout(told, roomId, "sendNextQuestion")

\* whether the submitted answer equals the stored one
Correct(answer, q) ==
  toLowerCase(trim(answer)) = toLowerCase(trim(q.answer))

\* the points awarded, in half points
Points(correct, timeLeft) ==
  IF correct
  THEN 2 + Min(1, (timeLeft * 1000) \div ROUND_TIMEOUT)
  ELSE 0

\* handleAnswerSubmission without the check of room.responses[playerId]
handleAnswerSubmission_again(w, roomId, playerId, answer, timeLeft) ==
  IF roomId \notin w.rooms THEN w
  ELSE IF w.roomObj[roomId].currentQuestion = NoQuestion THEN w
  ELSE LET room == w.roomObj[roomId]
           correct == Correct(answer, room.currentQuestion)
           points == Points(correct, timeLeft)
           scored == [w EXCEPT
                        !.roomObj[roomId].scores =
                           Put(@, playerId, GetOr0(@, playerId) + points),
                        !.roomObj[roomId].responses =
                           Put(@, playerId,
                               [answer |-> answer, correct |-> correct,
                                points |-> points])]
       IN IF Cardinality(DOMAIN scored.roomObj[roomId].responses)
               = Len(room.players)
          THEN processRoundResults(scored, roomId)
          ELSE scored

handleAnswerSubmission(w, roomId, playerId, answer, timeLeft) ==
  IF roomId \notin w.rooms THEN w
  ELSE IF w.roomObj[roomId].currentQuestion = NoQuestion THEN w
  ELSE IF playerId \in DOMAIN w.roomObj[roomId].responses THEN w
  ELSE LET room == w.roomObj[roomId]
           correct == Correct(answer, room.currentQuestion)
           points == Points(correct, timeLeft)
           scored == [w EXCEPT
                        !.roomObj[roomId].scores =
                           Put(@, playerId, GetOr0(@, playerId) + points),
                        !.roomObj[roomId].responses =
                           Put(@, playerId,
                               [answer |-> answer, correct |-> correct,
                                points |-> points])]
       IN IF Cardinality(DOMAIN scored.roomObj[roomId].responses)
               = Len(room.players)
          THEN processRoundResults(scored, roomId)
          ELSE scored

\* initializeMatch without room.initialized = true
initializeMatch_again(w, roomId, pick) ==
  IF roomId \notin w.rooms THEN w
  ELSE LET room == w.roomObj[roomId]
           started == [w EXCEPT
                         !.roomObj[roomId].scores =
                            [p \in DOMAIN @ \cup
                               {room.players[i] : i \in DOMAIN room.players}
                             |-> IF \E i \in DOMAIN room.players :
                                       room.players[i] = p
                                 THEN 0 ELSE @[p]]]
       IN sendNextQuestion(
            emit(started, roomId,
                 [type |-> "matchStarted", level |-> room.level]),
            roomId, pick)

initializeMatch(w, roomId, pick) ==
  IF roomId \notin w.rooms THEN w
  ELSE LET room == w.roomObj[roomId]
           started == [w EXCEPT
                         !.roomObj[roomId].scores =
                            [p \in DOMAIN @ \cup
                               {room.players[i] : i \in DOMAIN room.players}
                             |-> IF \E i \in DOMAIN room.players :
                                       room.players[i] = p
                                 THEN 0 ELSE @[p]],
                         !.roomObj[roomId].initialized = TRUE]
       IN sendNextQuestion(
            emit(started, roomId,
                 [type |-> "matchStarted", level |-> room.level]),
            roomId, pick)

handlePlayerDisconnect(w, roomId) ==
  IF roomId \notin w.rooms THEN w
  ELSE IF w.roomObj[roomId].questionCount < QUESTIONS_PER_MATCH
       THEN endMatch(w, roomId, "player_disconnect")
       ELSE w

(***************************************************************************)
(* calculateRatingChanges                                                  *)
(*                                                                         *)
(* expectedA = 1 / (1 + 10^((ratingB - ratingA) / 400)) is irrational for  *)
(* almost every rating difference d, so Math.round(K * (1 - expectedA)) is *)
(* a step function of the integer d: it is the number of the thresholds    *)
(* ceil(400 * log10((k - 0.5) / (K + 0.5 - k))), k = 1..K, that d has      *)
(* reached.  K * (actual - expected) never falls on a half-integer for an  *)
(* integer d, so Math.round is symmetric about 0 there.                    *)
(***************************************************************************)
RoundThresholds ==
  <<-719, -523, -428, -364, -314, -273, -237, -205, -176, -149, -124, -100,
    -77, -54, -32, -10, 11, 33, 55, 78, 101, 125, 150, 177, 206, 238, 274,
    315, 365, 429, 524, 720>>

\* Math.round(K * (1 - expectedA)) for d = ratingB - ratingA
RoundedKExpectedB(d) ==
  Cardinality({k \in DOMAIN RoundThresholds : d >= RoundThresholds[k]})

\* x || BASE_RATING for a rating
OrBaseRating(x) == IF x = Absent \/ x = 0 THEN BASE_RATING ELSE x

clampDelta(delta) ==
  Max(-MAX_RATING_CHANGE, Min(MAX_RATING_CHANGE, delta))

\* Math.round of x2 / 2: halves go up, whatever the sign
MathRound(x2) == (x2 + 1) \div 2

\* lines 496-536 for ratings that are not whole numbers, where K * expectedA
\* need not be irrational: kExpectedA2 is twice K * expectedA, a whole number
\* when K * expectedA is a multiple of one half
calculateRatingChangesAt(kExpectedA2, scoreA, scoreB) ==
  LET kExpectedB2 == 2 * K - kExpectedA2
      actualA2 == IF scoreA > scoreB THEN 2 ELSE IF scoreB > scoreA THEN 0 ELSE 1
      actualB2 == 2 - actualA2
      baseA == MathRound(K * actualA2 - kExpectedA2)
      baseB == MathRound(K * actualB2 - kExpectedB2)
      performanceBonus == Min(10, Abs(scoreA - scoreB))
      deltaA == IF scoreA > scoreB THEN baseA + performanceBonus
                ELSE IF scoreB > scoreA THEN baseA - performanceBonus
                ELSE baseA
      deltaB == IF scoreA > scoreB THEN baseB - performanceBonus
                ELSE IF scoreB > scoreA THEN baseB + performanceBonus
                ELSE baseB
  IN [deltaA |-> clampDelta(deltaA), deltaB |-> clampDelta(deltaB)]

\* calculateRatingChanges with the bonus taken from the score difference
\* itself instead of twice the difference
calculateRatingChanges_bonus(prA, prB, scoreA, scoreB) ==
  LET ratingA == OrBaseRating(prA)
      ratingB == OrBaseRating(prB)
      actualA2 == IF scoreA > scoreB THEN 2 ELSE IF scoreB > scoreA THEN 0 ELSE 1
      actualB2 == 2 - actualA2
      roundedB == RoundedKExpectedB(ratingB - ratingA)
      baseA == (K * actualA2) \div 2 - K + roundedB
      baseB == (K * actualB2) \div 2 - roundedB
      performanceBonus == Min(10, Abs(scoreA - scoreB) \div 2)
      deltaA == IF scoreA > scoreB THEN baseA + performanceBonus
                ELSE IF scoreB > scoreA THEN baseA - performanceBonus
                ELSE baseA
      deltaB == IF scoreA > scoreB THEN baseB - performanceBonus
                ELSE IF scoreB > scoreA THEN baseB + performanceBonus
                ELSE baseB
  IN [deltaA |-> clampDelta(deltaA), deltaB |-> clampDelta(deltaB)]

\* prA, prB: playerX.pr.pvp[difficulty]; scores in half points
calculateRatingChanges(prA, prB, scoreA, scoreB) ==
  LET ratingA == OrBaseRating(prA)
      ratingB == OrBaseRating(prB)
      \* twice actualA, actualB
      actualA2 == IF scoreA > scoreB THEN 2 ELSE IF scoreB > scoreA THEN 0 ELSE 1
      actualB2 == 2 - actualA2
      roundedB == RoundedKExpectedB(ratingB - ratingA)
      \* Math.round(K * (actualA - expectedA)), expectedA = 1 - expectedB
      baseA == (K * actualA2) \div 2 - K + roundedB
      \* Math.round(K * (actualB - expectedB))
      baseB == (K * actualB2) \div 2 - roundedB
      \* Math.min(10, Math.floor(scoreDiff * 2)), scoreDiff in points
      performanceBonus == Min(10, Abs(scoreA - scoreB))
      deltaA == IF scoreA > scoreB THEN baseA + performanceBonus
                ELSE IF scoreB > scoreA THEN baseA - performanceBonus
                ELSE baseA
      deltaB == IF scoreA > scoreB THEN baseB - performanceBonus
                ELSE IF scoreB > scoreA THEN baseB + performanceBonus
                ELSE baseB
  IN [deltaA |-> clampDelta(deltaA), deltaB |-> clampDelta(deltaB)]

(***************************************************************************)
(* endMatch after its awaits                                               *)
(***************************************************************************)
\* the rating written back without the floor at MIN_RATING
newRating_unfloored(rating, delta) == rating + delta

\* Math.max(GAME_CONFIG.MIN_RATING, rating + delta)
newRating(rating, delta) == Max(MIN_RATING, rating + delta)

\* what endMatch makes of the two stored ratings and the two scores it read:
\* the ratings defaulted, the deltas, the ratings to write back
updatedRatings(storedA, storedB, score1, score2) ==
  LET prA == OrBaseRating(storedA)
      prB == OrBaseRating(storedB)
      d == calculateRatingChanges(prA, prB, score1, score2)
  IN [prA |-> prA, prB |-> prB, deltaA |-> d.deltaA, deltaB |-> d.deltaB,
      newRatingA |-> newRating(prA, d.deltaA),
      newRatingB |-> newRating(prB, d.deltaB)]

\* the call resumes from Promise.all([findById, findById]) with both
\* profiles: ratings defaulted, deltas computed, new ratings set on the
\* documents; it is then suspended on Promise.all([save, save])
endMatchRate(w, roomId, i, st) ==
  LET room == w.roomObj[roomId]
      call == w.ending[roomId][i]
      u == updatedRatings(st[room.players[1]][room.difficulty],
                          st[room.players[2]][room.difficulty],
                          call.score1, call.score2)
  IN [w EXCEPT !.ending[roomId][i] =
        [call EXCEPT !.pc = "save", !.prA = u.prA, !.prB = u.prB,
                     !.deltaA = u.deltaA, !.deltaB = u.deltaB,
                     !.newRatingA = u.newRatingA,
                     !.newRatingB = u.newRatingB]]

\* the call resumes from the saves, both fulfilled: the terminal broadcast,
\* then the cleanup
endMatchEmit(w, roomId, i) ==
  LET room == w.roomObj[roomId]
      call == w.ending[roomId][i]
      done == [w EXCEPT !.ending[roomId] = RemoveAt(@, i)]
  IN cleanupRoom(
       emit(done, roomId,
            [type |-> "matchEnded", reason |-> call.reason,
             scores |-> room.scores, winner |-> call.winner,
             ratingDeltas |-> <<call.deltaA, call.deltaB>>,
             newRatings |-> <<call.newRatingA, call.newRatingB>>,
             \* not in the payload: the scores and the ratings the call
             \* had read
             scoresRead |-> <<call.score1, call.score2>>,
             ratingsRead |-> <<call.prA, call.prB>>]),
       roomId, call.reason)

\* the call leaves without a broadcast: players not found, or the catch
endMatchAbort(w, roomId, i, reason) ==
  cleanupRoom([w EXCEPT !.ending[roomId] = RemoveAt(@, i)], roomId, reason)

(***************************************************************************)
(* The initial state: no room, the question cache preloaded, two players   *)
(* in the store.                                                           *)
(***************************************************************************)
ShortProfile ==
  [requests |-> MaxRequests, connects |-> MaxConnects,
   disconnects |-> MaxDisconnects, submits |-> MaxSubmits,
   correct |-> MaxCorrect, bogus |-> MaxBogus]

MatchProfile ==
  [requests |-> 1, connects |-> Cardinality(PlayerIds),
   disconnects |-> MatchDisconnects,
   submits |-> Cardinality(PlayerIds) * QUESTIONS_PER_MATCH,
   correct |-> MatchCorrect, bogus |-> 0]

RoomsProfile ==
  [requests |-> RoomsRequests, connects |-> RoomsConnects,
   disconnects |-> RoomsDisconnects, submits |-> RoomsSubmits,
   correct |-> 0, bogus |-> 0]

JoinProfile ==
  [requests |-> 1, connects |-> JoinConnects,
   disconnects |-> JoinDisconnects, submits |-> JoinSubmits,
   correct |-> 1, bogus |-> 0]

\* p1 has no pvp rating yet, p2 has the given one
InitWith(profile, rating) ==
  /\ rooms = {}
  /\ roomObj = <<>>
  /\ roomTimeouts = {}
  /\ timers = [r \in RoomIds |-> [c \in {"sendNextQuestion", "endMatch"} |-> 0]]
  /\ ending = [r \in RoomIds |-> <<>>]
  /\ events = [r \in RoomIds |-> <<>>]
  /\ cleanups = [r \in RoomIds |-> <<>>]
  /\ sockets = [r \in RoomIds |-> 0]
  /\ store = [p \in PlayerIds |->
                [d \in Difficulties |-> IF p = "p1" THEN Absent ELSE rating]]
  /\ budget = profile
  /\ last = [op |-> "start", room |-> 0, info |-> "none"]

Init == InitWith(ShortProfile, 0)

InitMatch == InitWith(MatchProfile, 1200)

InitRooms == InitWith(RoomsProfile, 1200)

InitJoin == InitWith(JoinProfile, 1200)

Ran(op, roomId, info) == last' = [op |-> op, room |-> roomId, info |-> info]

(***************************************************************************)
(* POST /api/match/challenge.  The handler touches no shared state before  *)
(* its await on the two findById calls, hence one step.                    *)
(***************************************************************************)
\* the response status without the check of a player challenging themself
ChallengeStatus_self(fromPlayerId, toPlayerId, difficulty, foundFrom, foundTo) ==
  IF fromPlayerId = Undefined \/ toPlayerId = Undefined THEN "400"
  ELSE IF difficulty \notin Difficulties THEN "400"
  ELSE IF foundFrom = "throw" \/ foundTo = "throw" THEN "500"
  ELSE IF foundFrom = "null" \/ foundTo = "null" THEN "404"
  ELSE "200"

\* the response status of createChallenge
ChallengeStatus(fromPlayerId, toPlayerId, difficulty, foundFrom, foundTo) ==
  IF fromPlayerId = Undefined \/ toPlayerId = Undefined THEN "400"
  ELSE IF difficulty \notin Difficulties THEN "400"
  ELSE IF fromPlayerId = toPlayerId THEN "400"
  ELSE IF foundFrom = "throw" \/ foundTo = "throw" THEN "500"
  ELSE IF foundFrom = "null" \/ foundTo = "null" THEN "404"
  ELSE "200"

\* what the two findById calls of a request may do: they are reached only
\* by a request that passes the validation
Resolutions(fromPlayerId, toPlayerId, difficultyIn) ==
  IF ChallengeStatus(fromPlayerId, toPlayerId,
                     IF difficultyIn = Undefined THEN "medium" ELSE difficultyIn,
                     "doc", "doc") = "400"
  THEN {"doc"}
  ELSE FindOutcomes

\* a room whose second seat is given to the challenger again
newRoom_sameTwice(fromPlayerId, toPlayerId, difficulty) ==
  [players |-> <<fromPlayerId, fromPlayerId>>,
   scores |-> <<>>,
   difficulty |-> difficulty,
   level |-> 1,
   initialized |-> FALSE,
   responses |-> <<>>,
   questionCount |-> 0,
   questionsAsked |-> <<>>,
   currentQuestion |-> NoQuestion,
   issuedKeys |-> {}]

newRoom(fromPlayerId, toPlayerId, difficulty) ==
  [players |-> <<fromPlayerId, toPlayerId>>,
   scores |-> <<>>,
   difficulty |-> difficulty,
   level |-> 1,
   initialized |-> FALSE,
   responses |-> <<>>,
   questionCount |-> 0,
   questionsAsked |-> <<>>,
   currentQuestion |-> NoQuestion,
   \* not a field of the source's room: the keys of the questions issued
   issuedKeys |-> {}]

createChallenge(fromPlayerId, toPlayerId, difficultyIn, foundFrom, foundTo) ==
  LET difficulty == IF difficultyIn = Undefined THEN "medium" ELSE difficultyIn
      status == ChallengeStatus(fromPlayerId, toPlayerId, difficulty,
                                foundFrom, foundTo)
      \* uuidv4(): an id no room has had
      roomId == Cardinality(DOMAIN roomObj) + 1
  IN IF status = "200"
     THEN /\ roomId \in RoomIds
          /\ budget' = [budget EXCEPT !.requests = @ - 1]
          /\ rooms' = rooms \cup {roomId}
          /\ roomObj' = Put(roomObj, roomId,
                            newRoom(fromPlayerId, toPlayerId, difficulty))
          /\ roomTimeouts' = roomTimeouts \cup {roomId}
          /\ Ran("createChallenge", roomId, status)
          /\ UNCHANGED <<timers, ending, events, cleanups, sockets, store>>
     ELSE /\ Ran("createChallenge", 0, status)
          /\ budget' = [budget EXCEPT !.requests = @ - 1]
          /\ UNCHANGED <<rooms, roomObj, roomTimeouts, timers, ending, events,
                         cleanups, sockets, store>>

(***************************************************************************)
(* setupSocketForRoom: the namespace's handlers                            *)
(***************************************************************************)
\* nsp.on("connection")
connection(roomId) ==
  /\ roomId \in DOMAIN roomObj
  /\ budget.connects > 0
  /\ budget' = [budget EXCEPT !.connects = @ - 1]
  /\ IF roomId \notin rooms
     THEN /\ Ran("connection", roomId, "Room no longer exists")
          /\ UNCHANGED <<rooms, roomObj, roomTimeouts, timers, ending, events,
                         cleanups, sockets>>
     ELSE /\ sockets' = [sockets EXCEPT ![roomId] = @ + 1]
          /\ IF /\ ~roomObj[roomId].initialized
                /\ sockets[roomId] + 1 = Len(roomObj[roomId].players)
             THEN /\ \E pick \in Picks(World, roomId) :
                       Install(initializeMatch(World, roomId, pick))
                  /\ Ran("connection", roomId, "initializeMatch")
             ELSE /\ Ran("connection", roomId, "joined")
                  /\ UNCHANGED <<rooms, roomObj, roomTimeouts, timers, ending,
                                 events, cleanups>>
  /\ UNCHANGED store

\* socket.on("disconnect")
disconnect(roomId) ==
  /\ sockets[roomId] > 0
  /\ budget.disconnects > 0
  /\ budget' = [budget EXCEPT !.disconnects = @ - 1]
  /\ sockets' = [sockets EXCEPT ![roomId] = @ - 1]
  /\ Install(handlePlayerDisconnect(World, roomId))
  /\ Ran("disconnect", roomId,
         IF roomId \in rooms
            /\ roomObj[roomId].questionCount < QUESTIONS_PER_MATCH
         THEN "endMatch" ELSE "none")
  /\ UNCHANGED store

\* how handleAnswerSubmission treats a submission in the current state
Treatment(roomId, playerId) ==
  IF roomId \notin rooms \/ roomObj[roomId].currentQuestion = NoQuestion
  THEN "ignored"
  ELSE IF playerId \in DOMAIN roomObj[roomId].responses THEN "duplicate"
  ELSE "accepted"

\* socket.on("submitAnswer")
submitAnswer(roomId, playerId, answer, timeLeft) ==
  LET accepted == Treatment(roomId, playerId) = "accepted"
      correct == accepted /\ Correct(answer, roomObj[roomId].currentQuestion)
      bogus == accepted /\ playerId \notin PlayerIds
      Cost(b) == IF b THEN 1 ELSE 0
  IN /\ sockets[roomId] > 0
     /\ budget.submits >= Cost(accepted)
     /\ budget.correct >= Cost(correct)
     /\ budget.bogus >= Cost(bogus)
     /\ budget' = [budget EXCEPT !.submits = @ - Cost(accepted),
                                 !.correct = @ - Cost(correct),
                                 !.bogus = @ - Cost(bogus)]
     /\ Install(handleAnswerSubmission(World, roomId, playerId, answer, timeLeft))
     /\ last' = [op |-> "submitAnswer", room |-> roomId,
                 info |-> Treatment(roomId, playerId), playerId |-> playerId]
     /\ UNCHANGED <<sockets, store>>

(***************************************************************************)
(* Timers                                                                  *)
(***************************************************************************)
\* a settle-delay callback fires: () => sendNextQuestion(nsp, roomId) or
\* () => endMatch(nsp, roomId, "completed")
settleDelay(roomId, callback) ==
  /\ timers[roomId][callback] > 0
  /\ LET fired == [World EXCEPT !.timers[roomId][callback] = @ - 1]
     IN IF callback = "endMatch"
        THEN Install(endMatch(fired, roomId, "completed"))
        ELSE \E pick \in Picks(fired, roomId) :
               Install(sendNextQuestion(fired, roomId, pick))
  /\ Ran("settleDelay", roomId, IF roomId \in rooms THEN callback ELSE "none")
  /\ UNCHANGED <<sockets, store, budget>>

\* the match-expiry timer of createChallenge fires
matchTimeout(roomId) ==
  /\ roomId \in roomTimeouts
  /\ Install(released(cleanupRoom(World, roomId, "timeout"), roomId))
  /\ Ran("matchTimeout", roomId, "cleanupRoom")
  /\ UNCHANGED <<sockets, store, budget>>

\* ROUND_TIMEOUT passes after a question is issued while an answer is still
\* missing: the source arms no timer for it, so nothing runs
roundTimeout(roomId) ==
  /\ roomId \in rooms
  /\ roomObj[roomId].currentQuestion # NoQuestion
  /\ Cardinality(DOMAIN roomObj[roomId].responses)
       < Len(roomObj[roomId].players)
  /\ Ran("roundTimeout", roomId, "none")
  /\ UNCHANGED <<rooms, roomObj, roomTimeouts, timers, ending, events,
                 cleanups, sockets, store, budget>>

(***************************************************************************)
(* endMatch resumes                                                        *)
(***************************************************************************)
\* Promise.all([Player.findById(p1), Player.findById(p2)]) settles
\* endMatch returning on a missing profile without the cleanup
endMatchFound_noCleanup(roomId, i, foundA, foundB) ==
  /\ i \in DOMAIN ending[roomId]
  /\ ending[roomId][i].pc = "findById"
  /\ IF foundA = "throw" \/ foundB = "throw"
     THEN /\ Install(released(endMatchAbort(World, roomId, i, "error"), roomId))
          /\ Ran("endMatchFound", roomId, "error")
     ELSE IF foundA = "null" \/ foundB = "null"
     THEN /\ Install(released([World EXCEPT !.ending[roomId] = RemoveAt(@, i)],
                              roomId))
          /\ Ran("endMatchFound", roomId, "player_not_found")
     ELSE /\ Install(endMatchRate(World, roomId, i, store))
          /\ Ran("endMatchFound", roomId, "rated")
  /\ UNCHANGED <<sockets, store, budget>>

endMatchFound(roomId, i, foundA, foundB) ==
  /\ i \in DOMAIN ending[roomId]
  /\ ending[roomId][i].pc = "findById"
  /\ IF foundA = "throw" \/ foundB = "throw"
     THEN /\ Install(released(endMatchAbort(World, roomId, i, "error"), roomId))
          /\ Ran("endMatchFound", roomId, "error")
     ELSE IF foundA = "null" \/ foundB = "null"
     THEN /\ Install(released(endMatchAbort(World, roomId, i,
                                                "player_not_found"), roomId))
          /\ Ran("endMatchFound", roomId, "player_not_found")
     ELSE /\ Install(endMatchRate(World, roomId, i, store))
          /\ Ran("endMatchFound", roomId, "rated")
  /\ UNCHANGED <<sockets, store, budget>>

\* endMatch with a catch that only logs
endMatchSaved_noCleanup(roomId, i, savedA, savedB) ==
  /\ i \in DOMAIN ending[roomId]
  /\ ending[roomId][i].pc = "save"
  /\ LET room == roomObj[roomId]
         call == ending[roomId][i]
         p1 == room.players[1]
         p2 == room.players[2]
     IN store' = [p \in DOMAIN store |->
                    IF p = p1 /\ savedA
                    THEN [store[p] EXCEPT ![room.difficulty] = call.newRatingA]
                    ELSE IF p = p2 /\ savedB
                    THEN [store[p] EXCEPT ![room.difficulty] = call.newRatingB]
                    ELSE store[p]]
  /\ IF savedA /\ savedB
     THEN /\ Install(released(endMatchEmit(World, roomId, i), roomId))
          /\ Ran("endMatchSaved", roomId, ending[roomId][i].reason)
     ELSE /\ Install(released([World EXCEPT !.ending[roomId] = RemoveAt(@, i)],
                              roomId))
          /\ Ran("endMatchSaved", roomId, "error")
  /\ UNCHANGED <<sockets, budget>>

\* Promise.all([playerA.save(), playerB.save()]) settles; a save that
\* succeeds is in the store whatever the other one does
endMatchSaved(roomId, i, savedA, savedB) ==
  /\ i \in DOMAIN ending[roomId]
  /\ ending[roomId][i].pc = "save"
  /\ LET room == roomObj[roomId]
         call == ending[roomId][i]
         p1 == room.players[1]
         p2 == room.players[2]
     IN store' = [p \in DOMAIN store |->
                    IF p = p1 /\ savedA
                    THEN [store[p] EXCEPT ![room.difficulty] = call.newRatingA]
                    ELSE IF p = p2 /\ savedB
                    THEN [store[p] EXCEPT ![room.difficulty] = call.newRatingB]
                    ELSE store[p]]
  /\ IF savedA /\ savedB
     THEN /\ Install(released(endMatchEmit(World, roomId, i), roomId))
          /\ Ran("endMatchSaved", roomId, ending[roomId][i].reason)
     ELSE /\ Install(released(endMatchAbort(World, roomId, i, "error"), roomId))
          /\ Ran("endMatchSaved", roomId, "error")
  /\ UNCHANGED <<sockets, budget>>

Next ==
  \/ \E f \in FromInputs, t \in ToInputs, d \in DifficultyInputs :
       budget.requests > 0 /\ \E ff \in Resolutions(f, t, d), ft \in Resolutions(f, t, d) :
         createChallenge(f, t, d, ff, ft)
  \/ \E r \in RoomIds : connection(r)
  \/ \E r \in RoomIds : disconnect(r)
  \/ \E r \in RoomIds, p \in SubmitIds, a \in Answers, t \in TimeLefts :
       submitAnswer(r, p, a, t)
  \/ \E r \in RoomIds, c \in {"sendNextQuestion", "endMatch"} :
       settleDelay(r, c)
  \/ \E r \in RoomIds : matchTimeout(r)
  \/ \E r \in RoomIds : roundTimeout(r)
  \/ \E r \in RoomIds : \E i \in DOMAIN ending[r] :
       \E fa \in FindOutcomes, fb \in FindOutcomes :
         endMatchFound(r, i, fa, fb)
  \/ \E r \in RoomIds : \E i \in DOMAIN ending[r] :
       \E sa \in BOOLEAN, sb \in BOOLEAN :
         endMatchSaved(r, i, sa, sb)

Spec == Init /\ [][Next]_vars

SpecMatch == InitMatch /\ [][Next]_vars

SpecRooms == InitRooms /\ [][Next]_vars

SpecJoin == InitJoin /\ [][Next]_vars

(***************************************************************************)
(* The rating computation on its own: endMatch between its two awaits, on  *)
(* stored ratings and scores of any size.                                  *)
(***************************************************************************)
\* stored ratings: none, 0, near the floor, the base, and far apart
Ratings == {Absent, 0, 10, BASE_RATING, 1200, MaxRating}

\* scores in half points: 6 and 4 points, a negative one, a far lead
Scores == {-1, 0, 8, 12, MaxScore}

\* twice K * expectedA, for ratings that are not whole numbers
KExpectedA2s == {1, 31, 32, 33, 2 * K - 1}

InitRating ==
  /\ rooms = {}
  /\ roomObj = <<>>
  /\ roomTimeouts = {}
  /\ timers = [r \in RoomIds |-> [c \in {"sendNextQuestion", "endMatch"} |-> 0]]
  /\ ending = [r \in RoomIds |-> <<>>]
  /\ events = [r \in RoomIds |-> <<>>]
  /\ cleanups = [r \in RoomIds |-> <<>>]
  /\ sockets = [r \in RoomIds |-> 0]
  /\ \E ratingA \in Ratings, ratingB \in Ratings :
       store = [p \in PlayerIds |->
                  [d \in Difficulties |-> IF p = "p1" THEN ratingA ELSE ratingB]]
  /\ budget = [requests |-> 0, connects |-> 0, disconnects |-> 0,
               submits |-> 0, correct |-> 0, bogus |-> 0]
  /\ \E scoreA \in Scores, scoreB \in Scores :
       \/ last = [op |-> "start", room |-> 0, info |-> "ratings",
                  scoreA |-> scoreA, scoreB |-> scoreB]
       \/ \E k \in KExpectedA2s :
            /\ store["p1"]["easy"] = Absent /\ store["p2"]["easy"] = Absent
            /\ last = [op |-> "start", room |-> 0, info |-> "at",
                       scoreA |-> scoreA, scoreB |-> scoreB, kExpectedA2 |-> k]

\* endMatch from the lookups to the saves, for p1 against p2 on easy, and the
\* same match seen from the other side
rate ==
  /\ last.op = "start" /\ last.info = "ratings"
  /\ LET storedA == store["p1"]["easy"]
         storedB == store["p2"]["easy"]
         u == updatedRatings(storedA, storedB, last.scoreA, last.scoreB)
     IN /\ store' = [store EXCEPT !["p1"]["easy"] = u.newRatingA,
                                  !["p2"]["easy"] = u.newRatingB]
        /\ last' = [op |-> "rate", room |-> 0, info |-> "ratings",
                    storedA |-> storedA, storedB |-> storedB,
                    scoreA |-> last.scoreA, scoreB |-> last.scoreB,
                    out |-> u,
                    swapped |-> calculateRatingChanges(
                                  storedB, storedA, last.scoreB, last.scoreA)]
  /\ UNCHANGED <<rooms, roomObj, roomTimeouts, timers, ending, events,
                 cleanups, sockets, budget>>

\* calculateRatingChanges on ratings for which K * expectedA is a multiple of
\* one half, and the same match seen from the other side
rateAt ==
  /\ last.op = "start" /\ last.info = "at"
  /\ last' = [op |-> "rate", room |-> 0, info |-> "at",
              kExpectedA2 |-> last.kExpectedA2,
              scoreA |-> last.scoreA, scoreB |-> last.scoreB,
              out |-> calculateRatingChangesAt(
                        last.kExpectedA2, last.scoreA, last.scoreB),
              swapped |-> calculateRatingChangesAt(
                            2 * K - last.kExpectedA2, last.scoreB, last.scoreA)]
  /\ UNCHANGED <<rooms, roomObj, roomTimeouts, timers, ending, events,
                 cleanups, sockets, store, budget>>

NextRating == rate \/ rateAt

SpecRating == InitRating /\ [][NextRating]_vars

(***************************************************************************)
(* Node runs a timer's callback once its delay has elapsed: the expiry     *)
(* timer createChallenge arms is never cancelled without the room being    *)
(* removed, and the settle delay's callback is never cancelled at all.     *)
(***************************************************************************)
TimersFire ==
  \A r \in RoomIds :
    /\ WF_vars(matchTimeout(r))
    /\ \A c \in {"sendNextQuestion", "endMatch"} : WF_vars(settleDelay(r, c))

LiveRooms == SpecRooms /\ TimersFire

LiveMatch == SpecMatch /\ TimersFire

(***************************************************************************)
(* Observations on a state                                                 *)
(***************************************************************************)
Created == DOMAIN roomObj

EventsOf(r, type) == {i \in DOMAIN events[r] : events[r][i].type = type}

MatchEnded(r, reason) ==
  {i \in EventsOf(r, "matchEnded") : events[r][i].reason = reason}

RoundsScored(r) ==
  {events[r][i].questionNumber : i \in EventsOf(r, "roundResult")}

CleanedFor(r, reason) ==
  \E i \in DOMAIN cleanups[r] : cleanups[r][i] = reason

\* nothing that could still act on room r is scheduled or suspended
Quiet(r) ==
  /\ ending[r] = <<>>
  /\ \A c \in DOMAIN timers[r] : timers[r][c] = 0

(***************************************************************************)
(* C1.  The end-of-match procedure (ratings computed, both profiles saved) *)
(* is carried out at most once per room.  A call that has saved both       *)
(* profiles broadcasts matchEnded in the same step, so the number of       *)
(* matchEnded events of a room is the number of completed runs.            *)
(***************************************************************************)
C1_AtMostOnce ==
  \A r \in RoomIds : Cardinality(EventsOf(r, "matchEnded")) <= 1

(***************************************************************************)
(* C2.  Whenever a room leaves the registry, exactly one matchEnded event  *)
(* has been broadcast to it, the broadcast of the removing step included.  *)
(***************************************************************************)
C2_BroadcastBeforeRemoval ==
  [][\A r \in RoomIds :
       (r \in rooms /\ r \notin rooms')
         => Cardinality({i \in DOMAIN events'[r] :
                           events'[r][i].type = "matchEnded"}) = 1]_vars

(***************************************************************************)
(* C3.  Every room created is eventually removed from the registry; a room *)
(* that has been removed never reappears; and while a room is not in the   *)
(* registry its expiry timer is not pending.                               *)
(***************************************************************************)
C3_RoomsAreRemoved ==
  /\ \A r \in RoomIds : (r \in rooms) ~> (r \notin rooms)
  /\ [][\A r \in Created : r \notin rooms => r \notin rooms']_vars
  /\ [](\A r \in RoomIds : r \notin rooms => r \notin roomTimeouts)

\* a room nobody ever connected to has been removed by its expiry timer,
\* while another room is still registered
C3_Witness ==
  \E r \in Created :
    /\ r \notin rooms
    /\ r \notin roomTimeouts
    /\ last.op = "matchTimeout" /\ last.room = r
    /\ events[r] = <<>>
    /\ rooms # {}

(***************************************************************************)
(* C4, as stated.  Once ten rounds have been scored in a room and nothing  *)
(* more is scheduled for it, a matchEnded event with reason completed has  *)
(* been broadcast and the room is removed.                                 *)
(***************************************************************************)
C4_CompletedIsBroadcast ==
  \A r \in Created :
    (QUESTIONS_PER_MATCH \in RoundsScored(r) /\ Quiet(r))
      => r \notin rooms /\ MatchEnded(r, "completed") # {}

(***************************************************************************)
(* C4, amended.  After ten rounds have been scored no further question is  *)
(* issued; while the room is registered endMatch("completed") is scheduled *)
(* or under way; the room is eventually removed; and a matchEnded event    *)
(* with reason completed is broadcast only after the tenth round has been  *)
(* scored, at most once.                                                   *)
(***************************************************************************)
C4_Amended ==
  /\ [](\A r \in RoomIds :
          /\ \A i \in EventsOf(r, "newQuestion") :
               events[r][i].questionNumber <= QUESTIONS_PER_MATCH
          /\ (QUESTIONS_PER_MATCH \in RoundsScored(r) /\ r \in rooms)
               => \/ timers[r]["endMatch"] > 0
                  \/ \E i \in DOMAIN ending[r] :
                       ending[r][i].reason = "completed"
          /\ \A i \in MatchEnded(r, "completed") :
               \E j \in EventsOf(r, "roundResult") :
                 j < i /\ events[r][j].questionNumber = QUESTIONS_PER_MATCH
          /\ Cardinality(MatchEnded(r, "completed")) <= 1)
  /\ \A r \in RoomIds :
       (QUESTIONS_PER_MATCH \in RoundsScored(r)) ~> (r \notin rooms)

\* a match that ran its ten rounds and ended with the completed broadcast
C4_Witness ==
  \E r \in Created :
    /\ r \notin rooms
    /\ QUESTIONS_PER_MATCH \in RoundsScored(r)
    /\ MatchEnded(r, "completed") # {}
    /\ last.op = "endMatchSaved"

(***************************************************************************)
(* C5.  A disconnect before ten rounds are scored starts the end of the    *)
(* match with reason player_disconnect on the scores of that moment: the   *)
(* call reads the two scores as they are, the winner is the strictly       *)
(* higher score or nobody, and the rating deltas of its matchEnded event   *)
(* are those of calculateRatingChanges on these scores; the remaining      *)
(* player gets no automatic win.                                           *)
(***************************************************************************)
C5_DisconnectEndsOnScores ==
  /\ [][\A r \in RoomIds :
          (/\ last'.op = "disconnect" /\ last'.room = r
           /\ r \in rooms
           /\ roomObj[r].questionCount < QUESTIONS_PER_MATCH)
            => LET room == roomObj[r]
                   s1 == GetOr0(room.scores, room.players[1])
                   s2 == GetOr0(room.scores, room.players[2])
                   n == Len(ending'[r])
               IN /\ n = Len(ending[r]) + 1
                  /\ ending'[r][n].reason = "player_disconnect"
                  /\ ending'[r][n].score1 = s1
                  /\ ending'[r][n].score2 = s2
                  /\ ending'[r][n].winner =
                       (IF s1 > s2 THEN room.players[1]
                        ELSE IF s2 > s1 THEN room.players[2] ELSE Null)]_vars
  /\ [](\A r \in RoomIds : \A i \in MatchEnded(r, "player_disconnect") :
          LET e == events[r][i]
              d == calculateRatingChanges(e.ratingsRead[1], e.ratingsRead[2],
                                          e.scoresRead[1], e.scoresRead[2])
          IN /\ e.ratingDeltas = <<d.deltaA, d.deltaB>>
             /\ (e.winner = Null) <=> (e.scoresRead[1] = e.scoresRead[2]))

\* a match ended by a disconnect after a scored round, one player ahead
C5_Witness ==
  \E r \in Created : \E i \in MatchEnded(r, "player_disconnect") :
    /\ events[r][i].scoresRead[1] # events[r][i].scoresRead[2]
    /\ events[r][i].winner # Null
    /\ EventsOf(r, "roundResult") # {}

(***************************************************************************)
(* C6.  A room whose expiry timer fires goes through the same termination: *)
(* a room cleaned up for reason timeout has had a matchEnded event with    *)
(* reason timeout broadcast to it.                                         *)
(***************************************************************************)
C6_TimeoutTerminates ==
  \A r \in RoomIds :
    CleanedFor(r, "timeout") => MatchEnded(r, "timeout") # {}

(***************************************************************************)
(* C7.  When the round timer elapses on a round still open, the round is   *)
(* scored with the responses present: the round count goes up by one and   *)
(* a roundResult is broadcast.                                             *)
(***************************************************************************)
C7_RoundTimerScores ==
  [][\A r \in RoomIds :
       (/\ last'.op = "roundTimeout" /\ last'.room = r
        /\ r \in rooms
        /\ roomObj[r].currentQuestion # NoQuestion
        /\ Cardinality(DOMAIN roomObj[r].responses) < Len(roomObj[r].players))
         => /\ roomObj'[r].questionCount = roomObj[r].questionCount + 1
            /\ Len(events'[r]) = Len(events[r]) + 1
            /\ events'[r][Len(events'[r])].type = "roundResult"]_vars

(***************************************************************************)
(* C8.  A submission from a player whose response for the current round is *)
(* already recorded changes nothing: no score, no response, no event, no   *)
(* timer, no end of match.                                                 *)
(***************************************************************************)
C8_DuplicateIgnored ==
  [][\A r \in RoomIds :
       (/\ last'.op = "submitAnswer" /\ last'.room = r
        /\ r \in rooms
        /\ last'.playerId \in DOMAIN roomObj[r].responses)
         => UNCHANGED <<rooms, roomObj, roomTimeouts, timers, ending,
                        events, cleanups, sockets, store>>]_vars

\* a second submission of a player in the round has just been handled
C8_Witness ==
  /\ last.op = "submitAnswer" /\ last.info = "duplicate"
  /\ last.room \in rooms
  /\ last.playerId \in DOMAIN roomObj[last.room].responses

(***************************************************************************)
(* C9.  A round never issues a question already issued in the room while   *)
(* an unused question of the round's level and the room's difficulty       *)
(* remains.                                                                *)
(***************************************************************************)
C9_NoRepeatWhileUnused ==
  [][\A r \in RoomIds :
       (/\ r \in rooms /\ r \in rooms'
        /\ Len(events'[r]) > Len(events[r])
        /\ events'[r][Len(events'[r])].type = "newQuestion")
         => LET unused ==
                  {q \in loadQuestionsFromExcel :
                     /\ q.difficulty = roomObj[r].difficulty
                     /\ q.levelNumber = roomObj'[r].level
                     /\ q.key \notin roomObj[r].issuedKeys}
            IN unused # {}
                 => roomObj'[r].currentQuestion.key
                      \notin roomObj[r].issuedKeys]_vars

(***************************************************************************)
(* C10.  createChallenge answers 400 when an id is missing, the ids are    *)
(* equal or the difficulty is not easy, medium or hard, and 404 when the   *)
(* request is well formed and a player is not found; whenever it fails,    *)
(* the registry, the pending timers and the namespaces are as before.      *)
(***************************************************************************)
C10_FailedChallengeChangesNothing ==
  [][\A f \in FromInputs, t \in ToInputs, d \in DifficultyInputs,
        ff \in FindOutcomes, ft \in FindOutcomes :
       (last'.op = "createChallenge" /\ createChallenge(f, t, d, ff, ft))
         => LET difficulty == IF d = Undefined THEN "medium" ELSE d
                invalid == \/ f = Undefined \/ t = Undefined
                           \/ f = t
                           \/ difficulty \notin {"easy", "medium", "hard"}
            IN /\ invalid => last'.info = "400"
               /\ (~invalid /\ ff # "throw" /\ ft # "throw"
                     /\ (ff = "null" \/ ft = "null")) => last'.info = "404"
               /\ last'.info # "200"
                    => UNCHANGED <<rooms, roomObj, roomTimeouts, timers,
                                   ending, events, cleanups, sockets,
                                   store>>]_vars

\* a challenge has just been refused for an unknown player while another
\* room is registered with its timer pending
C10_Witness ==
  /\ last.op = "createChallenge" /\ last.info = "404"
  /\ rooms # {} /\ roomTimeouts = rooms

(***************************************************************************)
(* C11.  A room enters the registry with two distinct participants, not    *)
(* initialized, without scores, responses or a current question, with no   *)
(* round counted, and with its expiry timer as the only thing pending; the *)
(* participants of a registered room never change.                         *)
(***************************************************************************)
C11_RoomStartsAwaitingPlayers ==
  [][\A r \in RoomIds :
       /\ (r \notin rooms /\ r \in rooms')
            => /\ Len(roomObj'[r].players) = 2
               /\ roomObj'[r].players[1] # roomObj'[r].players[2]
               /\ {roomObj'[r].players[1], roomObj'[r].players[2]}
                    \subseteq PlayerIds
               /\ ~roomObj'[r].initialized
               /\ roomObj'[r].scores = <<>>
               /\ roomObj'[r].responses = <<>>
               /\ roomObj'[r].questionCount = 0
               /\ roomObj'[r].currentQuestion = NoQuestion
               /\ r \in roomTimeouts'
               /\ \A c \in DOMAIN timers'[r] : timers'[r][c] = 0
               /\ ending'[r] = <<>>
               /\ events'[r] = <<>>
               /\ sockets'[r] = 0
       /\ (r \in rooms /\ r \in rooms')
            => roomObj'[r].players = roomObj[r].players]_vars

\* a second room has just been created while the first is in a round
C11_Witness ==
  /\ last.op = "createChallenge" /\ last.info = "200"
  /\ last.room \in rooms
  /\ \E r \in rooms \ {last.room} : roomObj[r].currentQuestion # NoQuestion

(***************************************************************************)
(* C12.  On equal ratings calculateRatingChanges gives (0, 0) for a tied   *)
(* score and otherwise +d to the higher scorer and -d to the other, with   *)
(* d = 16 + min(10, floor(2 * |scoreA - scoreB|)); ratings (1000, 1000)    *)
(* with 6 points against 4 give (20, -20).                                 *)
(***************************************************************************)
C12_EqualRatings ==
  last.op = "rate" =>
    LET equal == \/ last.info = "ratings" /\ last.storedA = last.storedB
                 \/ last.info = "at" /\ last.kExpectedA2 = K
        \* twice the difference in points, the scores being in half points
        d == 16 + Min(10, Abs(last.scoreA - last.scoreB))
    IN /\ equal =>
            /\ last.scoreA = last.scoreB
                 => last.out.deltaA = 0 /\ last.out.deltaB = 0
            /\ last.scoreA > last.scoreB
                 => last.out.deltaA = d /\ last.out.deltaB = -d
            /\ last.scoreA < last.scoreB
                 => last.out.deltaA = -d /\ last.out.deltaB = d
       /\ (/\ last.info = "ratings"
           /\ last.storedA = 1000 /\ last.storedB = 1000
           /\ last.scoreA = 12 /\ last.scoreB = 8)
            => last.out.deltaA = 20 /\ last.out.deltaB = -20

\* ratings 1000 and 1000, 6 points against 4, have been rated
C12_Witness ==
  /\ last.op = "rate" /\ last.info = "ratings"
  /\ last.storedA = 1000 /\ last.storedB = 1000
  /\ last.scoreA = 12 /\ last.scoreB = 8
  /\ last.out.deltaA = 20 /\ last.out.deltaB = -20

(***************************************************************************)
(* C13.  Both rating deltas lie between -50 and 50, and every rating       *)
(* written back to a profile is at least 0.                                *)
(***************************************************************************)
C13_DeltasAndRatingsBounded ==
  last.op = "rate" =>
    /\ -MAX_RATING_CHANGE <= last.out.deltaA
    /\ last.out.deltaA <= MAX_RATING_CHANGE
    /\ -MAX_RATING_CHANGE <= last.out.deltaB
    /\ last.out.deltaB <= MAX_RATING_CHANGE
    /\ last.info = "ratings" =>
         /\ store["p1"]["easy"] = last.out.newRatingA
         /\ store["p2"]["easy"] = last.out.newRatingB
         /\ store["p1"]["easy"] >= 0
         /\ store["p2"]["easy"] >= 0

\* a loss larger than the rating has been written back as 0
C13_Witness ==
  /\ last.op = "rate" /\ last.info = "ratings"
  /\ last.out.prA + last.out.deltaA < 0
  /\ store["p1"]["easy"] = 0

(***************************************************************************)
(* C14.  The two deltas of one computation sum to zero, and the same match *)
(* with the two sides swapped gives both deltas negated, also when         *)
(* 32 * (actual - expected) is a half-integer.                             *)
(***************************************************************************)
C14_SwapNegates ==
  last.op = "rate" =>
    /\ last.out.deltaA + last.out.deltaB = 0
    /\ last.swapped.deltaA = -last.out.deltaA
    /\ last.swapped.deltaB = -last.out.deltaB

(***************************************************************************)
(* C15.  cleanupRoom removes the room and its expiry timer and touches no  *)
(* other room; called for a room that is already removed, with any reason, *)
(* it leaves the registry and the timer table as they are.                 *)
(***************************************************************************)
C15_CleanupIdempotent ==
  /\ [][\A r \in RoomIds :
          Len(cleanups'[r]) > Len(cleanups[r])
            => /\ rooms' = rooms \ {r}
               /\ roomTimeouts' = roomTimeouts \ {r}
               /\ r \notin rooms
                    => rooms' = rooms /\ roomTimeouts' = roomTimeouts]_vars
  /\ [](\A r \in RoomIds :
          LET once == cleanupRoom(World, r, "timeout")
              twice == cleanupRoom(once, r, "error")
          IN /\ r \notin once.rooms /\ r \notin once.roomTimeouts
             /\ twice.rooms = once.rooms
             /\ twice.roomTimeouts = once.roomTimeouts
             /\ once.rooms = rooms \ {r}
             /\ once.roomTimeouts = roomTimeouts \ {r})

\* cleanupRoom has just run a second time for a room, another room being
\* registered with its timer pending
C15_Witness ==
  \E r \in RoomIds :
    /\ Len(cleanups[r]) >= 2
    /\ last.room = r /\ last.op \in {"endMatchFound", "endMatchSaved"}
    /\ \E o \in rooms : o # r /\ o \in roomTimeouts

(***************************************************************************)
(* C16.  No newQuestion event carries the answer; the only event that      *)
(* carries a correct answer is a roundResult, it is the answer of the      *)
(* question of the round it reports, and it is broadcast by the step that  *)
(* scores that round, after the round's newQuestion.                       *)
(***************************************************************************)
C16_AnswerOnlyInRoundResult ==
  /\ [](\A r \in RoomIds : \A i \in DOMAIN events[r] :
          LET e == events[r][i]
          IN /\ e.type = "newQuestion" => e.answer = Undefined
             /\ e.type # "roundResult"
                  => "correctAnswer" \notin DOMAIN e
             /\ e.type \notin {"newQuestion", "roundResult"}
                  => "answer" \notin DOMAIN e
             /\ e.type = "roundResult"
                  => \E j \in EventsOf(r, "newQuestion") :
                       /\ j < i
                       /\ events[r][j].questionNumber = e.questionNumber)
  /\ [][\A r \in RoomIds :
          (/\ Len(events'[r]) > Len(events[r])
           /\ events'[r][Len(events'[r])].type = "roundResult")
            => LET e == events'[r][Len(events'[r])]
               IN /\ e.correctAnswer = roomObj[r].currentQuestion.answer
                  /\ roomObj'[r].questionCount = roomObj[r].questionCount + 1
                  /\ e.questionNumber = roomObj'[r].questionCount
                  /\ Cardinality(DOMAIN roomObj'[r].responses)
                       = Len(roomObj[r].players)]_vars

\* the second round is open: one result broadcast, two questions issued
C16_Witness ==
  \E r \in rooms :
    /\ Cardinality(EventsOf(r, "roundResult")) = 1
    /\ Cardinality(EventsOf(r, "newQuestion")) = 2
    /\ roomObj[r].responses = <<>>

(***************************************************************************)
(* C17.  In every matchEnded event the winner is the participant whose     *)
(* score in that event's scores is strictly higher, or nobody when the     *)
(* reported scores are equal, and the rating deltas are those computed     *)
(* from the reported scores.  Every room of the model is p1 against p2.    *)
(***************************************************************************)
C17_WinnerOfReportedScores ==
  \A r \in RoomIds : \A i \in EventsOf(r, "matchEnded") :
    LET e == events[r][i]
        reported1 == GetOr0(e.scores, "p1")
        reported2 == GetOr0(e.scores, "p2")
        d == calculateRatingChanges(e.ratingsRead[1], e.ratingsRead[2],
                                    reported1, reported2)
    IN /\ e.winner = (IF reported1 > reported2 THEN "p1"
                      ELSE IF reported2 > reported1 THEN "p2" ELSE Null)
       /\ e.ratingDeltas = <<d.deltaA, d.deltaB>>

(***************************************************************************)
(* C18.  When endMatch resumes from its lookups with a profile missing, no *)
(* rating is changed or saved, nothing is broadcast, the call is over, and *)
(* the room is removed for reason player_not_found.                        *)
(***************************************************************************)
C18_MissingProfileAborts ==
  [][\A r \in RoomIds :
       last'.op = "endMatchFound" /\ last'.room = r
         => \A i \in DOMAIN ending[r] :
              \A foundA \in {"doc", "null"}, foundB \in {"doc", "null"} :
                (/\ foundA = "null" \/ foundB = "null"
                 /\ endMatchFound(r, i, foundA, foundB))
                  => /\ store' = store
                     /\ events' = events
                     /\ Len(ending'[r]) = Len(ending[r]) - 1
                     /\ r \notin rooms' /\ r \notin roomTimeouts'
                     /\ cleanups'[r]
                          = Append(cleanups[r], "player_not_found")]_vars

\* a match with a scored round has been ended for a missing profile
C18_Witness ==
  \E r \in DOMAIN roomObj :
    /\ last.op = "endMatchFound" /\ last.room = r
    /\ last.info = "player_not_found"
    /\ r \notin rooms
    /\ CleanedFor(r, "player_not_found")
    /\ EventsOf(r, "roundResult") # {}
    /\ EventsOf(r, "matchEnded") = {}

(***************************************************************************)
(* C19.  When a save fails at the end of a match the room is removed for   *)
(* reason error and its expiry timer is cancelled: no failed save leaves   *)
(* the room registered.                                                    *)
(***************************************************************************)
C19_FailedSaveStillCleansUp ==
  [][\A r \in RoomIds :
       last'.op = "endMatchSaved" /\ last'.room = r
         => \A i \in DOMAIN ending[r] :
              \A savedA \in BOOLEAN, savedB \in BOOLEAN :
                (/\ ~savedA \/ ~savedB
                 /\ endMatchSaved(r, i, savedA, savedB))
                  => /\ r \notin rooms' /\ r \notin roomTimeouts'
                     /\ cleanups'[r] = Append(cleanups[r], "error")
                     /\ Len(ending'[r]) = Len(ending[r]) - 1
                     /\ events' = events]_vars

\* a registered room has just been removed because a save failed
C19_Witness ==
  \E r \in DOMAIN roomObj :
    /\ last.op = "endMatchSaved" /\ last.room = r /\ last.info = "error"
    /\ r \notin rooms /\ r \notin roomTimeouts
    /\ cleanups[r] = <<"error">>

(***************************************************************************)
(* C20.  The events of a room go round by round: the newQuestion events    *)
(* are numbered 1, 2, 3, ... in order, the newQuestion of round N comes    *)
(* after exactly N - 1 roundResult events, and the roundResult of round N  *)
(* comes after exactly N newQuestion events.                               *)
(***************************************************************************)
C20_RoundByRound ==
  \A r \in RoomIds : \A i \in DOMAIN events[r] :
    LET e == events[r][i]
        questionsBefore ==
          Cardinality({j \in EventsOf(r, "newQuestion") : j < i})
        resultsBefore ==
          Cardinality({j \in EventsOf(r, "roundResult") : j < i})
    IN /\ e.type = "newQuestion"
            => /\ e.questionNumber = questionsBefore + 1
               /\ e.questionNumber = resultsBefore + 1
       /\ e.type = "roundResult"
            => /\ e.questionNumber = questionsBefore
               /\ e.questionNumber = resultsBefore + 1

\* the question of the last round has been issued
C20_Witness ==
  \E r \in rooms : \E i \in EventsOf(r, "newQuestion") :
    /\ events[r][i].questionNumber = QUESTIONS_PER_MATCH
    /\ i = Len(events[r])

(***************************************************************************)
(* C21.  For a room that is no longer registered, a settle-delay callback  *)
(* (next question or end of match), a late submitAnswer and a disconnect   *)
(* do nothing: no event, no rating, no room created or changed, no timer   *)
(* armed, no endMatch call started.                                        *)
(***************************************************************************)
C21_CallbacksAfterRemoval ==
  [][\A r \in DOMAIN roomObj :
       (/\ r \notin rooms
        /\ last'.room = r
        /\ last'.op \in {"settleDelay", "submitAnswer", "disconnect"})
         => /\ UNCHANGED <<rooms, roomObj, roomTimeouts, ending, events,
                           cleanups, store>>
            /\ \A o \in RoomIds : \A c \in DOMAIN timers[o] :
                 timers'[o][c] <= timers[o][c]]_vars

\* the next-question callback of a scored round has just fired for a room
\* that a disconnect had ended in the meantime
C21_Witness ==
  \E r \in DOMAIN roomObj :
    /\ r \notin rooms
    /\ last.op = "settleDelay" /\ last.room = r /\ last.info = "none"
    /\ EventsOf(r, "roundResult") # {}
    /\ MatchEnded(r, "player_disconnect") # {}

(***************************************************************************)
(* C22.  In every room the keys of scores and the keys of responses are    *)
(* among the room's two participants, whatever playerId the submitAnswer   *)
(* events carry, so responses never has more than two entries; and         *)
(* responses is empty when a new question is broadcast.                    *)
(***************************************************************************)
C22_KeysAreParticipants ==
  /\ [](\A r \in rooms :
         LET participants ==
               {roomObj[r].players[i] : i \in DOMAIN roomObj[r].players}
         IN /\ DOMAIN roomObj[r].scores \subseteq participants
            /\ DOMAIN roomObj[r].responses \subseteq participants
            /\ Cardinality(DOMAIN roomObj[r].responses) <= 2)
  /\ [][\A r \in rooms' :
          (EventsOf(r, "newQuestion")' # EventsOf(r, "newQuestion"))
            => roomObj'[r].responses = <<>>]_vars

(***************************************************************************)
(* C23.  In every room questionCount stays between 0 and                   *)
(* QUESTIONS_PER_MATCH; it changes only by +1 and only in a step that      *)
(* scores a round (a roundResult is broadcast); and no question numbered   *)
(* above QUESTIONS_PER_MATCH is broadcast.                                 *)
(***************************************************************************)
C23_RoundCountBounded ==
  /\ [](\A r \in Created :
          /\ r \in rooms =>
               roomObj[r].questionCount \in 0..QUESTIONS_PER_MATCH
          /\ \A i \in EventsOf(r, "newQuestion") :
               events[r][i].questionNumber \in 1..QUESTIONS_PER_MATCH)
  /\ [][\A r \in rooms \cap rooms' :
          roomObj'[r].questionCount # roomObj[r].questionCount
            => /\ roomObj'[r].questionCount = roomObj[r].questionCount + 1
               /\ EventsOf(r, "roundResult")' # EventsOf(r, "roundResult")]_vars

\* the last round of a full match has been scored
C23_Witness ==
  \E r \in rooms :
    /\ roomObj[r].questionCount = QUESTIONS_PER_MATCH
    /\ Cardinality(EventsOf(r, "roundResult")) = QUESTIONS_PER_MATCH

(***************************************************************************)
(* C24.  matchStarted is broadcast at most once per room, only by the      *)
(* connection that brings the number of connected sockets to the number of *)
(* participants; in that step both participants' scores are set to 0 and   *)
(* the question of round 1 is issued.  Connections and disconnections in   *)
(* any order start no second match and reset no score of a started match.  *)
(***************************************************************************)
C24_StartedOnceWithRoundOne ==
  [][\A r \in rooms' :
       LET participants ==
             {roomObj'[r].players[i] : i \in DOMAIN roomObj'[r].players}
           starts == EventsOf(r, "matchStarted")' # EventsOf(r, "matchStarted")
       IN /\ starts =>
               /\ EventsOf(r, "matchStarted") = {}
               /\ last'.op = "connection" /\ last'.room = r
               /\ sockets'[r] = Cardinality(participants)
               /\ \A p \in participants : roomObj'[r].scores[p] = 0
               /\ \E i \in EventsOf(r, "newQuestion")' :
                    /\ i = Len(events'[r])
                    /\ events'[r][i].questionNumber = 1
          /\ (/\ ~starts
              /\ last'.room = r
              /\ last'.op \in {"connection", "disconnect"})
               => roomObj'[r].scores = roomObj[r].scores]_vars

\* the same, for a pool with no question of the room's difficulty: the match
\* started is ended at once with reason no_questions
C24_Amended ==
  [][\A r \in rooms' :
       LET participants ==
             {roomObj'[r].players[i] : i \in DOMAIN roomObj'[r].players}
           starts == EventsOf(r, "matchStarted")' # EventsOf(r, "matchStarted")
       IN /\ starts =>
               /\ EventsOf(r, "matchStarted") = {}
               /\ last'.op = "connection" /\ last'.room = r
               /\ sockets'[r] = Cardinality(participants)
               /\ \A p \in participants : roomObj'[r].scores[p] = 0
               /\ IF fallbackQuestions(roomObj'[r]) # {}
                  THEN /\ \E i \in EventsOf(r, "newQuestion")' :
                            /\ i = Len(events'[r])
                            /\ events'[r][i].questionNumber = 1
                       /\ ending'[r] = ending[r]
                  ELSE /\ EventsOf(r, "newQuestion")' = {}
                       /\ Len(ending'[r]) = Len(ending[r]) + 1
                       /\ ending'[r][Len(ending'[r])].reason = "no_questions"
          /\ (/\ ~starts
              /\ last'.room = r
              /\ last'.op \in {"connection", "disconnect"})
               => roomObj'[r].scores = roomObj[r].scores]_vars

\* a socket has come back to a started match in which a point is scored
C24_Witness ==
  \E r \in rooms :
    /\ last.op = "connection" /\ last.room = r /\ last.info = "joined"
    /\ roomObj[r].initialized
    /\ sockets[r] = Len(roomObj[r].players)
    /\ \E p \in DOMAIN roomObj[r].scores : roomObj[r].scores[p] > 0

(***************************************************************************)
(* C25.  At match end a stored rating is replaced by BASE_RATING only when *)
(* it is absent: a rating that is present, 0 included, is the rating the   *)
(* computation uses, and the rating written back is that stored rating     *)
(* plus the delta, floored at MIN_RATING.                                  *)
(***************************************************************************)
C25_PresentRatingIsUsed ==
  (last.op = "rate" /\ last.info = "ratings") =>
    /\ last.out.prA = IF last.storedA = Absent THEN BASE_RATING
                      ELSE last.storedA
    /\ last.out.prB = IF last.storedB = Absent THEN BASE_RATING
                      ELSE last.storedB
    /\ last.storedA # Absent =>
         store["p1"]["easy"] = Max(MIN_RATING, last.storedA + last.out.deltaA)
    /\ last.storedB # Absent =>
         store["p2"]["easy"] = Max(MIN_RATING, last.storedB + last.out.deltaB)

(***************************************************************************)
(* C26.  An accepted submission changes only the submitter's score: it     *)
(* adds 0 for a wrong answer and between 1.0 and 1.5 points for a correct  *)
(* one, whatever timeLeft the client sends, and no score of a room ever    *)
(* decreases during the match.  Scores are in half points.                 *)
(***************************************************************************)
C26_PointsAddedInRange ==
  [][\A r \in rooms \cap rooms' :
       LET before == roomObj[r].scores
           after == roomObj'[r].scores
       IN /\ \A p \in DOMAIN before \cap DOMAIN after : after[p] >= before[p]
          /\ (/\ last'.op = "submitAnswer" /\ last'.room = r
              /\ last'.info = "accepted")
               => /\ \A p \in DOMAIN after \ {last'.playerId} :
                       p \in DOMAIN before /\ after[p] = before[p]
                  /\ LET added == after[last'.playerId]
                                    - GetOr0(before, last'.playerId)
                     IN IF roomObj'[r].responses[last'.playerId].correct
                        THEN added \in 2..3
                        ELSE added = 0]_vars

(***************************************************************************)
(* C27.  Once endMatch has been entered for a room, for whatever reason,   *)
(* the room is terminal: while the call is suspended on the profile        *)
(* lookups or the saves no newQuestion and no roundResult is broadcast for *)
(* the room, and its scores and its questionCount no longer change.        *)
(***************************************************************************)
C27_EndingIsTerminal ==
  [][\A r \in rooms \cap rooms' :
       ending[r] # <<>>
         => /\ EventsOf(r, "newQuestion")' = EventsOf(r, "newQuestion")
            /\ EventsOf(r, "roundResult")' = EventsOf(r, "roundResult")
            /\ roomObj'[r].scores = roomObj[r].scores
            /\ roomObj'[r].questionCount = roomObj[r].questionCount]_vars

(***************************************************************************)
(* C28.  The rating update of a match is all or nothing: when the saves of *)
(* an ending room settle, either both participants' stored ratings are the *)
(* new ratings of the match and a matchEnded event is broadcast, or no     *)
(* stored rating has changed.                                              *)
(***************************************************************************)
C28_RatingsAllOrNothing ==
  [][\A r \in rooms :
       (last'.op = "endMatchSaved" /\ last'.room = r)
         => \/ store' = store
            \/ /\ EventsOf(r, "matchEnded")' # EventsOf(r, "matchEnded")
               /\ \E i \in DOMAIN ending[r] :
                    /\ ending[r][i].pc = "save"
                    /\ store'[roomObj[r].players[1]][roomObj[r].difficulty]
                         = ending[r][i].newRatingA
                    /\ store'[roomObj[r].players[2]][roomObj[r].difficulty]
                         = ending[r][i].newRatingB]_vars

====
